---- MODULE Spec2Model ----
(***************************************************************************)
(* Model of the brochure generation pipeline: ingest.py (run_ingest and    *)
(* its helpers), summarizer.py (BrochureSummarizer, run_summarizer) and    *)
(* the job directory tree they share.                                      *)
(*                                                                         *)
(* Strings are sequences of one-character strings.  The characters that    *)
(* matter to the JSON line format are named below.  A fixed literal of the *)
(* format (a key with its punctuation) is one token of the alphabet.       *)
(***************************************************************************)
EXTENDS Integers, Sequences, FiniteSets, TLC

VARIABLES
    fs,          \* the job directory tree: [Roots \X JobIds -> directory]
    now,         \* the wall clock, in seconds
    calls,       \* number of calls made so far
    last,        \* the last call: its arguments and its outcome
    returned,    \* the job ids run_ingest has returned, in call order
    ctx_chunks,  \* prepare_context: the chunks argument
    ctx_max,     \* prepare_context: the max_chars argument
    ctx_out,     \* prepare_context: the returned context
    st_docs,     \* chunk store: the split documents to write
    st_file,     \* chunk store: the content of chunks.jsonl
    st_out,      \* chunk store: the result of the last operation on it
    br,          \* brochure store: brochure.json of one job and the last call
    conc,        \* two run_summarizer executions on one job, step by step
    lst,         \* job listing: the job directories and the list shown
    split,       \* chunking: the documents, the sizes and the chunks
    app,         \* front end: the three job roots and the handler's position
    jobs         \* jobs with their rendered PDF and directory times

vars == <<fs, now, calls, last, returned, ctx_chunks, ctx_max, ctx_out,
          st_docs, st_file, st_out, br, conc, lst, split, app, jobs>>

pipeline_vars == <<fs, now, calls, last, returned>>
ctx_vars == <<ctx_chunks, ctx_max, ctx_out>>
store_vars == <<st_docs, st_file, st_out>>
aux_vars == <<br, conc, lst, split, app, jobs>>

-----------------------------------------------------------------------------
(* Characters *)

SP == " "
NL == "LF"
QUOTE == "QT"
BSL == "BS"
\* `{` and `}` of a JSON object
LB == "{"
RB == "}"
\* the literal `"text": ` of a chunk record
KT == "K_text"
\* the literal `, "metadata": ` of a chunk record, with the punctuation of
\* the metadata object around its source_file value
KM == "K_metadata"

\* a file of the tree: absent, or present with its content
NoFile == [exists |-> FALSE, data |-> <<>>]
File(d) == [exists |-> TRUE, data |-> d]

SeqsUpTo(S, n) == UNION {[1..k -> S] : k \in 0..n}

Range(s) == {s[i] : i \in 1..Len(s)}

RECURSIVE Concat(_)
\* the concatenation of a sequence of strings
Concat(ss) ==
    IF ss = <<>> THEN <<>> ELSE Head(ss) \o Concat(Tail(ss))

RECURSIVE Join(_, _)
\* sep.join(parts)
Join(parts, sep) ==
    IF parts = <<>> THEN <<>>
    ELSE IF Len(parts) = 1 THEN parts[1]
    ELSE parts[1] \o sep \o Join(Tail(parts), sep)

Take(s, n) == SubSeq(s, 1, IF n < Len(s) THEN n ELSE Len(s))

IsSpace(c) == c \in {SP, NL}

RECURSIVE LStrip(_)
LStrip(s) ==
    IF s # <<>> /\ IsSpace(Head(s)) THEN LStrip(Tail(s)) ELSE s

RECURSIVE RStrip(_)
RStrip(s) ==
    IF s # <<>> /\ IsSpace(s[Len(s)]) THEN RStrip(SubSeq(s, 1, Len(s) - 1)) ELSE s

\* str.strip()
Strip(s) == LStrip(RStrip(s))

RECURSIVE SplitLinesFrom(_, _)
\* the lines a text file yields when iterated: each ends at a newline (the
\* newline is dropped here: every reader strips the line), the last one at
\* the end of the file
SplitLinesFrom(s, cur) ==
    IF s = <<>> THEN (IF cur = <<>> THEN <<>> ELSE <<cur>>)
    ELSE IF Head(s) = NL THEN <<cur>> \o SplitLinesFrom(Tail(s), <<>>)
    ELSE SplitLinesFrom(Tail(s), Append(cur, Head(s)))

SplitLines(s) == SplitLinesFrom(s, <<>>)

-----------------------------------------------------------------------------
(* json.dump and json.loads on chunk records *)

\* the JSON string escape of one character
JsonEscape(c) ==
    IF c = QUOTE THEN <<BSL, QUOTE>>
    ELSE IF c = BSL THEN <<BSL, BSL>>
    ELSE IF c = NL THEN <<BSL, "n">>
    ELSE <<c>>

RECURSIVE JsonEscapeAll(_)
JsonEscapeAll(s) ==
    IF s = <<>> THEN <<>> ELSE JsonEscape(Head(s)) \o JsonEscapeAll(Tail(s))

\* a string as a JSON string literal
JsonString(s) == <<QUOTE>> \o JsonEscapeAll(s) \o <<QUOTE>>

\* json.dump({"text": doc.page_content, "metadata": doc.metadata})
json_dump_chunk(doc) ==
    <<LB, KT>> \o JsonString(doc.page_content)
        \o <<KM>> \o JsonString(doc.metadata.source_file) \o <<RB>>

\* The values json.loads returns, and its JSONDecodeError
JError == [kind |-> "error", has_text |-> FALSE, text |-> <<>>,
           metadata |-> [source_file |-> <<>>]]
JNumber == [kind |-> "number", has_text |-> FALSE, text |-> <<>>,
            metadata |-> [source_file |-> <<>>]]
JString == [kind |-> "string", has_text |-> FALSE, text |-> <<>>,
            metadata |-> [source_file |-> <<>>]]
JEmptyObject == [kind |-> "object", has_text |-> FALSE, text |-> <<>>,
                 metadata |-> [source_file |-> <<>>]]
JChunk(t, m) == [kind |-> "object", has_text |-> TRUE, text |-> t,
                 metadata |-> [source_file |-> m]]

RECURSIVE ScanString(_, _, _)
\* scans a JSON string literal from s[i], the character after its opening
\* quote: [ok, val, next]
ScanString(s, i, acc) ==
    IF i > Len(s) THEN [ok |-> FALSE, val |-> <<>>, next |-> i]
    ELSE IF s[i] = QUOTE THEN [ok |-> TRUE, val |-> acc, next |-> i + 1]
    ELSE IF s[i] = NL THEN [ok |-> FALSE, val |-> <<>>, next |-> i]
    ELSE IF s[i] = BSL
    THEN IF i + 1 > Len(s) THEN [ok |-> FALSE, val |-> <<>>, next |-> i]
         ELSE IF s[i + 1] = "n" THEN ScanString(s, i + 2, Append(acc, NL))
         ELSE IF s[i + 1] = QUOTE THEN ScanString(s, i + 2, Append(acc, QUOTE))
         ELSE IF s[i + 1] = BSL THEN ScanString(s, i + 2, Append(acc, BSL))
         ELSE [ok |-> FALSE, val |-> <<>>, next |-> i]
    ELSE ScanString(s, i + 1, Append(acc, s[i]))

ParseString(s, i) ==
    IF i <= Len(s) /\ s[i] = QUOTE THEN ScanString(s, i + 1, <<>>)
    ELSE [ok |-> FALSE, val |-> <<>>, next |-> i]

Digits == {"0", "1", "2", "3", "4", "5", "6", "7", "8", "9"}

\* json.loads(s): a number, a string, the empty object, a chunk record, or
\* JSONDecodeError
json_loads(s) ==
    IF s = <<>> THEN JError
    ELSE IF Range(s) \subseteq Digits THEN JNumber
    ELSE IF s[1] = QUOTE
    THEN LET r == ParseString(s, 1)
         IN IF r.ok /\ r.next = Len(s) + 1 THEN JString ELSE JError
    ELSE IF s = <<LB, RB>> THEN JEmptyObject
    ELSE IF Len(s) >= 2 /\ s[1] = LB /\ s[2] = KT
    THEN LET t == ParseString(s, 3)
         IN IF ~t.ok \/ t.next > Len(s) \/ s[t.next] # KM THEN JError
            ELSE LET m == ParseString(s, t.next + 1)
                 IN IF m.ok /\ m.next = Len(s) /\ s[m.next] = RB
                    THEN JChunk(t.val, m.val)
                    ELSE JError
    ELSE JError

-----------------------------------------------------------------------------
(* The chunk store: ingest.save_chunks and BrochureSummarizer.load_chunks *)

save_chunks_reversed(split_docs) ==
    Concat([i \in 1..Len(split_docs) |->
              json_dump_chunk(split_docs[Len(split_docs) + 1 - i]) \o <<NL>>])

\* the content of chunks.jsonl after save_chunks(split_docs, job_dir): the
\* file is opened with "w", one record and a newline are written per document
save_chunks(split_docs) ==
    Concat([i \in 1..Len(split_docs) |-> json_dump_chunk(split_docs[i]) \o <<NL>>])

RECURSIVE LoadLines(_)
\* the loop of load_chunks: json.loads(line.strip()) is appended, a line
\* that raises JSONDecodeError is skipped
LoadLines(lines) ==
    IF lines = <<>> THEN <<>>
    ELSE LET v == json_loads(Strip(Head(lines)))
         IN IF v.kind = "error" THEN LoadLines(Tail(lines))
            ELSE <<v>> \o LoadLines(Tail(lines))

\* load_chunks(file_path): FileNotFoundError when the file does not exist
load_chunks(file) ==
    IF ~file.exists
    THEN [ok |-> FALSE, error |-> "FileNotFoundError", chunks |-> <<>>]
    ELSE [ok |-> TRUE, error |-> "none",
          chunks |-> LoadLines(SplitLines(file.data))]

-----------------------------------------------------------------------------
(* BrochureSummarizer.prepare_context *)

DefaultMaxChars == 50000

DigitChar(d) == <<"0", "1", "2", "3", "4", "5", "6", "7", "8", "9">>[d + 1]

RECURSIVE Decimal(_)
\* str(n) for n >= 0
Decimal(n) ==
    IF n < 10 THEN <<DigitChar(n)>>
    ELSE Decimal(n \div 10) \o <<DigitChar(n % 10)>>

\* f"--- Chunk {k} ---\n{text}\n"
ChunkText(k, text) ==
    <<"-", "-", "-", SP, "C", "h", "u", "n", "k", SP>> \o Decimal(k)
        \o <<SP, "-", "-", "-", NL>> \o text \o <<NL>>

\* chunk.get("text", "")
ChunkGetText(chunk) == IF chunk.has_text THEN chunk.text ELSE <<>>

RECURSIVE PrepareLoop(_, _, _, _, _)
\* the loop of prepare_context from the k-th chunk on (k = i + 1), with the
\* context_parts and total_chars accumulated so far
PrepareLoop(chunks, k, parts, total, max_chars) ==
    IF k > Len(chunks) THEN [ok |-> TRUE, parts |-> parts]
    ELSE IF chunks[k].kind # "object"
    THEN [ok |-> FALSE, parts |-> parts]
    ELSE LET text == ChunkGetText(chunks[k])
             chunk_text == ChunkText(k, text)
         IN IF Strip(text) = <<>>
            THEN PrepareLoop(chunks, k + 1, parts, total, max_chars)
            ELSE IF total + Len(chunk_text) > max_chars
            THEN [ok |-> TRUE,
                  parts |-> Append(parts, Take(chunk_text, max_chars - total))]
            ELSE PrepareLoop(chunks, k + 1, Append(parts, chunk_text),
                             total + Len(chunk_text), max_chars)

RECURSIVE PrepareLoopDropOverflow(_, _, _, _, _)
PrepareLoopDropOverflow(chunks, k, parts, total, max_chars) ==
    IF k > Len(chunks) THEN [ok |-> TRUE, parts |-> parts]
    ELSE IF chunks[k].kind # "object"
    THEN [ok |-> FALSE, parts |-> parts]
    ELSE LET text == ChunkGetText(chunks[k])
             chunk_text == ChunkText(k, text)
         IN IF Strip(text) = <<>>
            THEN PrepareLoopDropOverflow(chunks, k + 1, parts, total, max_chars)
            ELSE IF total + Len(chunk_text) > max_chars
            THEN [ok |-> TRUE, parts |-> parts]
            ELSE PrepareLoopDropOverflow(chunks, k + 1, Append(parts, chunk_text),
                                         total + Len(chunk_text), max_chars)

prepare_context_drop_overflow(chunks, max_chars) ==
    LET r == PrepareLoopDropOverflow(chunks, 1, <<>>, 0, max_chars)
    IN IF r.ok
       THEN [ok |-> TRUE, error |-> "none", context |-> Join(r.parts, <<NL>>)]
       ELSE [ok |-> FALSE, error |-> "AttributeError", context |-> <<>>]

\* prepare_context(chunks, max_chars): "\n".join(context_parts); a chunk
\* that is not a dict has no get() and raises AttributeError
prepare_context(chunks, max_chars) ==
    LET r == PrepareLoop(chunks, 1, <<>>, 0, max_chars)
    IN IF r.ok
       THEN [ok |-> TRUE, error |-> "none", context |-> Join(r.parts, <<NL>>)]
       ELSE [ok |-> FALSE, error |-> "AttributeError", context |-> <<>>]

-----------------------------------------------------------------------------
(* BrochureSummarizer.generate_brochure *)

Sections == {"title", "subtitle", "intro_summary", "key_features",
             "competitive_advantages", "how_it_works", "additional_insights"}

Model == "gpt-4o-mini"

NoMetadata == [generated_at |-> 0, model |-> "none", chunks_processed |-> 0]
NoBrochure == [sections |-> {}, _metadata |-> NoMetadata]

\* The generation collaborator's answer to one call: the call raises
\* (api = "error"), or returns a content that is cut-off JSON ("truncated"),
\* a JSON value that is no object ("array"), or a JSON object with some of
\* the brochure's sections and, possibly, a key "_metadata" of its own
GenError == [api |-> "error", syntax |-> "none", sections |-> {}]
GenContent(syntax, sections) ==
    [api |-> "ok", syntax |-> syntax, sections |-> sections]

GenFail(e) == [ok |-> FALSE, error |-> e, brochure |-> NoBrochure]

\* the value of "_metadata" in an answer that has this key
ResponseMetadata == [generated_at |-> 0, model |-> "other",
                     chunks_processed |-> 0]

generate_brochure_keeping_metadata(chunks, gen, model, t) ==
    IF chunks = <<>> THEN GenFail("ValueError")
    ELSE LET c == prepare_context(chunks, DefaultMaxChars)
         IN IF ~c.ok THEN GenFail(c.error)
            ELSE IF gen.api # "ok" THEN GenFail("ServiceError")
            ELSE IF gen.syntax = "truncated" THEN GenFail("JSONDecodeError")
            ELSE IF gen.syntax # "object" THEN GenFail("TypeError")
            ELSE [ok |-> TRUE, error |-> "none",
                  brochure |->
                    [sections |-> gen.sections \ {"_metadata"},
                     _metadata |->
                       IF "_metadata" \in gen.sections THEN ResponseMetadata
                       ELSE [generated_at |-> t, model |-> model,
                             chunks_processed |-> Len(chunks)]]]

generate_brochure_repairing(chunks, gen, model, t) ==
    IF chunks = <<>> THEN GenFail("ValueError")
    ELSE LET c == prepare_context(chunks, DefaultMaxChars)
         IN IF ~c.ok THEN GenFail(c.error)
            ELSE IF gen.api # "ok" THEN GenFail("ServiceError")
            ELSE [ok |-> TRUE, error |-> "none",
                  brochure |->
                    [sections |-> gen.sections \ {"_metadata"},
                     _metadata |-> [generated_at |-> t, model |-> model,
                                    chunks_processed |-> Len(chunks)]]]

\* generate_brochure(chunks) of a summarizer with self.model = model, called
\* at time t, when the collaborator answers gen: the "_metadata" of the
\* answer, if any, is replaced by the assignment brochure["_metadata"] = ...
generate_brochure(chunks, gen, model, t) ==
    IF chunks = <<>> THEN GenFail("ValueError")
    ELSE LET c == prepare_context(chunks, DefaultMaxChars)
         IN IF ~c.ok THEN GenFail(c.error)
            ELSE IF gen.api # "ok" THEN GenFail("ServiceError")
            ELSE IF gen.syntax = "truncated" THEN GenFail("JSONDecodeError")
            ELSE IF gen.syntax # "object" THEN GenFail("TypeError")
            ELSE [ok |-> TRUE, error |-> "none",
                  brochure |->
                    [sections |-> gen.sections \ {"_metadata"},
                     _metadata |-> [generated_at |-> t, model |-> model,
                                    chunks_processed |-> Len(chunks)]]]

-----------------------------------------------------------------------------
(* The chunk store on its own: save_chunks, load_chunks and a summarization *)
(* of the file, from any split documents and any file content               *)

MaxDocs == 2
MaxLines == 3

StoreTexts == {<<"a">>, <<"a", NL, "n">>, <<QUOTE>>, <<BSL, "n">>, <<SP, "a">>,
               <<>>}
StoreNames == {<<"a">>, <<QUOTE, "b">>}
StoreDocs == {[page_content |-> t, metadata |-> [source_file |-> m]] :
                t \in StoreTexts, m \in StoreNames}

Doc1 == [page_content |-> <<"a">>, metadata |-> [source_file |-> <<"a">>]]
Doc2 == [page_content |-> <<"n", SP>>, metadata |-> [source_file |-> <<"b">>]]

\* lines a chunk file may hold: records, a record cut short, a blank line,
\* a number, an empty object, a record with spaces around it
StoreLines == {json_dump_chunk(Doc1), json_dump_chunk(Doc2),
               Take(json_dump_chunk(Doc1), 4), <<>>, <<"4">>, <<LB, RB>>,
               <<SP>> \o json_dump_chunk(Doc2) \o <<SP>>}

StoreFiles == {File(Join(ls, <<NL>>)) : ls \in SeqsUpTo(StoreLines, MaxLines)}

GoodGen == GenContent("object", Sections)

NoStoreOut == [op |-> "none", written |-> FALSE, ok |-> TRUE, chunks |-> <<>>,
               processed |-> 0, error |-> "none"]

StoreInit ==
    /\ \/ st_docs \in SeqsUpTo(StoreDocs, MaxDocs) /\ st_file = NoFile
       \/ st_docs = <<>> /\ st_file \in StoreFiles
    /\ st_out = NoStoreOut

\* save_chunks(st_docs, job_dir)
StoreSaveChunks ==
    /\ st_file' = File(save_chunks(st_docs))
    /\ st_out' = [NoStoreOut EXCEPT !.op = "save", !.written = TRUE]
    /\ UNCHANGED st_docs

\* load_chunks(job_dir / "chunks.jsonl")
StoreLoadChunks ==
    /\ LET r == load_chunks(st_file)
       IN st_out' = [op |-> "load", written |-> st_out.written, ok |-> r.ok,
                     chunks |-> r.chunks, processed |-> 0, error |-> r.error]
    /\ UNCHANGED <<st_docs, st_file>>

\* load_chunks, then generate_brochure with a well-formed answer
StoreSummarize ==
    /\ LET r == load_chunks(st_file)
           g == generate_brochure(r.chunks, GoodGen, Model, 0)
       IN st_out' = [op |-> "summarize", written |-> st_out.written,
                     ok |-> r.ok /\ g.ok, chunks |-> r.chunks,
                     processed |-> g.brochure._metadata.chunks_processed,
                     error |-> IF r.ok THEN g.error ELSE r.error]
    /\ UNCHANGED <<st_docs, st_file>>

-----------------------------------------------------------------------------
(* ingest.py: load_documents, chunk_documents *)

ChunkSize == 1000
ChunkOverlap == 200

\* Path(file).suffix.lower()
Lower(ext) ==
    IF ext = ".PDF" THEN ".pdf" ELSE IF ext = ".DOCX" THEN ".docx" ELSE ext

RECURSIVE load_documents(_)
\* load_documents(input_dir) on the files the directory lists: a file that
\* is neither .pdf nor .docx is skipped, the loader of a file it cannot read
\* raises, and the exception leaves load_documents
load_documents(files) ==
    IF files = <<>> THEN [ok |-> TRUE, docs |-> <<>>]
    ELSE LET file == Head(files)
             rest == load_documents(Tail(files))
         IN IF Lower(file.ext) \notin {".pdf", ".docx"} THEN rest
            ELSE IF ~file.readable THEN [ok |-> FALSE, docs |-> <<>>]
            ELSE IF ~rest.ok THEN rest
            ELSE [ok |-> TRUE,
                  docs |-> [i \in 1..Len(file.pages) |->
                              [page_content |-> file.pages[i],
                               metadata |-> [source_file |-> file.name]]]
                           \o rest.docs]

RECURSIVE Windows(_, _, _)
\* windows of chunk_size characters, each starting chunk_size - chunk_overlap
\* after the one before
Windows(text, chunk_size, chunk_overlap) ==
    IF Len(text) <= chunk_size THEN <<text>>
    ELSE <<SubSeq(text, 1, chunk_size)>>
         \o Windows(SubSeq(text, chunk_size - chunk_overlap + 1, Len(text)),
                    chunk_size, chunk_overlap)

\* RecursiveCharacterTextSplitter.split_text: a text of at most chunk_size
\* characters is one chunk, stripped, and none when that is empty; a longer
\* text without separators is cut into overlapping windows
split_text(text, chunk_size, chunk_overlap) ==
    IF Len(text) <= chunk_size
    THEN (IF Strip(text) = <<>> THEN <<>> ELSE <<Strip(text)>>)
    ELSE Windows(text, chunk_size, chunk_overlap)

RECURSIVE chunk_documents(_, _, _)
\* chunk_documents(docs, chunk_size, chunk_overlap): every chunk carries the
\* metadata of its document
chunk_documents(docs, chunk_size, chunk_overlap) ==
    IF docs = <<>> THEN <<>>
    ELSE LET texts == split_text(Head(docs).page_content, chunk_size, chunk_overlap)
         IN [i \in 1..Len(texts) |->
               [page_content |-> texts[i], metadata |-> Head(docs).metadata]]
            \o chunk_documents(Tail(docs), chunk_size, chunk_overlap)

-----------------------------------------------------------------------------
(* The job directory tree *)

MaxSecond == 1
MaxCalls == 2

Roots == {"./jobss"}
\* the values of str(uuid.uuid4())[:8]
Uuids == {"0a1b2c3d", "bc7521ff"}
\* datetime.now().strftime("%Y%m%d_%H%M%S_") + str(uuid.uuid4())[:8]
JobId(t, u) == [ts |-> t, uid |-> u]
JobIds == {JobId(t, u) : t \in 0..MaxSecond, u \in Uuids}
Paths == Roots \X JobIds

NoBrochureFile == [exists |-> FALSE, doc |-> NoBrochure]
BrochureFile(b) == [exists |-> TRUE, doc |-> b]

\* a job directory: chunks.jsonl, brochure.json, chroma_db
NoDir == [exists |-> FALSE, chunks |-> NoFile, brochure |-> NoBrochureFile,
          chroma |-> FALSE]

\* job_dir.mkdir(parents=True, exist_ok=True)
Mkdir(tree, p) == [tree EXCEPT ![p].exists = TRUE]

FileA == [name |-> <<"a">>, ext |-> ".pdf", pages |-> << <<"a">>, <<SP>> >>,
          readable |-> TRUE]
FileB == [name |-> <<"b">>, ext |-> ".DOCX", pages |-> << <<"n", NL, "b", SP>> >>,
          readable |-> TRUE]
FileNotes == [name |-> <<"n">>, ext |-> ".txt", pages |-> << <<"a">> >>,
              readable |-> TRUE]
FileBroken == [name |-> <<"x">>, ext |-> ".pdf", pages |-> <<>>,
               readable |-> FALSE]

\* what the input directory may hold
InputDirs == {<<>>, <<FileB, FileNotes, FileA>>, <<FileA, FileBroken>>}

-----------------------------------------------------------------------------
(* ingest.run_ingest *)

run_ingest_embed_first(tree, files, root, create_embeddings, api_key, u, embed_ok, t) ==
    LET job_id == JobId(t, u)
        p == <<root, job_id>>
        made == Mkdir(tree, p)
        loaded == load_documents(files)
        split_docs == chunk_documents(loaded.docs, ChunkSize, ChunkOverlap)
        saved == [made EXCEPT ![p].chunks = File(save_chunks(split_docs))]
    IN IF ~loaded.ok
       THEN [fs |-> made, outcome |-> "LoaderError", job_id |-> job_id]
       ELSE IF create_embeddings /\ ~api_key
       THEN [fs |-> made, outcome |-> "ValueError", job_id |-> job_id]
       ELSE IF create_embeddings /\ ~embed_ok
       THEN [fs |-> made, outcome |-> "EmbeddingError", job_id |-> job_id]
       ELSE IF create_embeddings
       THEN [fs |-> [saved EXCEPT ![p].chroma = TRUE], outcome |-> "ok",
             job_id |-> job_id]
       ELSE [fs |-> saved, outcome |-> "ok", job_id |-> job_id]

\* run_ingest(input_dir, output_root, create_embeddings) at second t, where
\* the directory lists files, OPENAI_API_KEY is set iff api_key, uuid4 draws
\* u and the embedding collaborator succeeds iff embed_ok: the tree after
\* the call, how the call ended, and the job id it computed
run_ingest(tree, files, root, create_embeddings, api_key, u, embed_ok, t) ==
    LET job_id == JobId(t, u)
        p == <<root, job_id>>
        made == Mkdir(tree, p)
        loaded == load_documents(files)
        split_docs == chunk_documents(loaded.docs, ChunkSize, ChunkOverlap)
        saved == [made EXCEPT ![p].chunks = File(save_chunks(split_docs))]
    IN IF ~loaded.ok
       THEN [fs |-> made, outcome |-> "LoaderError", job_id |-> job_id]
       ELSE IF create_embeddings /\ ~api_key
       THEN [fs |-> saved, outcome |-> "ValueError", job_id |-> job_id]
       ELSE IF create_embeddings /\ ~embed_ok
       THEN [fs |-> saved, outcome |-> "EmbeddingError", job_id |-> job_id]
       ELSE IF create_embeddings
       THEN [fs |-> [saved EXCEPT ![p].chroma = TRUE], outcome |-> "ok",
             job_id |-> job_id]
       ELSE [fs |-> saved, outcome |-> "ok", job_id |-> job_id]

-----------------------------------------------------------------------------
(* summarizer.run_summarizer *)

\* save_brochure(brochure, output_path): the parent directory is made, the
\* file is opened with "w" and the whole document is dumped into it
save_brochure(tree, p, brochure) ==
    [Mkdir(tree, p) EXCEPT ![p].brochure = BrochureFile(brochure)]

run_summarizer_mkdir_first(tree, root, job_id, api_key, gen, t) ==
    LET p == <<root, job_id>>
        made == Mkdir(tree, p)
        loaded == load_chunks(tree[p].chunks)
        g == generate_brochure(loaded.chunks, gen, Model, t)
    IN IF ~api_key THEN [fs |-> tree, outcome |-> "EnvironmentError"]
       ELSE IF ~loaded.ok THEN [fs |-> made, outcome |-> loaded.error]
       ELSE IF ~g.ok THEN [fs |-> made, outcome |-> g.error]
       ELSE [fs |-> save_brochure(made, p, g.brochure), outcome |-> "ok"]

\* run_summarizer(job_id, jobs_root) at second t, where OPENAI_API_KEY is set
\* iff api_key and the generation collaborator answers gen
run_summarizer(tree, root, job_id, api_key, gen, t) ==
    LET p == <<root, job_id>>
        loaded == load_chunks(tree[p].chunks)
        g == generate_brochure(loaded.chunks, gen, Model, t)
    IN IF ~api_key THEN [fs |-> tree, outcome |-> "EnvironmentError"]
       ELSE IF ~loaded.ok THEN [fs |-> tree, outcome |-> loaded.error]
       ELSE IF ~g.ok THEN [fs |-> tree, outcome |-> g.error]
       ELSE [fs |-> save_brochure(tree, p, g.brochure), outcome |-> "ok"]

-----------------------------------------------------------------------------
(* The pipeline: calls of run_ingest and run_summarizer, one after another *)

Gens == {GenError, GenContent("truncated", {}), GenContent("array", {}),
         GoodGen, GenContent("object", {"title"}),
         GenContent("object", Sections \cup {"_metadata"})}

\* <<create_embeddings, OPENAI_API_KEY is set, the embedding succeeds>>: the
\* key is read only when create_embeddings, the collaborator is called only
\* with a key
IngestEnvs == {<<FALSE, TRUE, TRUE>>, <<TRUE, FALSE, TRUE>>,
               <<TRUE, TRUE, FALSE>>, <<TRUE, TRUE, TRUE>>}

\* <<OPENAI_API_KEY is set, the generation collaborator's answer>>: without
\* a key the collaborator is never called
SummarizerEnvs == {<<FALSE, GenError>>} \cup {<<TRUE, g>> : g \in Gens}

NoCall == [op |-> "none", root |-> "./jobss", job_id |-> JobId(0, "0a1b2c3d"),
           create_embeddings |-> FALSE, api_key |-> FALSE, gen |-> GenError,
           input |-> <<>>, outcome |-> "none"]

EmptyTree == [p \in Paths |-> NoDir]

\* the tree an earlier session left: one job, ingested and summarized
PriorJob == JobId(0, "bc7521ff")
PriorTree ==
    LET i == run_ingest(EmptyTree, <<FileB, FileNotes, FileA>>, "./jobss",
                        FALSE, TRUE, PriorJob.uid, TRUE, PriorJob.ts)
    IN run_summarizer(i.fs, "./jobss", i.job_id, TRUE, GoodGen, PriorJob.ts).fs

\* the jobs directory is empty, or holds the job of an earlier session
PipelineInit ==
    /\ \/ fs = EmptyTree /\ returned = <<>>
       \/ fs = PriorTree /\ returned = <<PriorJob>>
    /\ now = 0
    /\ calls = 0
    /\ last = NoCall

\* the value of a variable that the specification at hand does not use
Idle == [op |-> "idle"]

BrIdle == br = Idle
ConcIdle == conc = Idle
ListIdle == lst = Idle
SplitIdle == split = Idle
AppIdle == app = Idle
JobsIdle == jobs = Idle
AuxIdle == BrIdle /\ ConcIdle /\ ListIdle /\ SplitIdle /\ AppIdle /\ JobsIdle

CtxIdle ==
    /\ ctx_chunks = <<>>
    /\ ctx_max = 0
    /\ ctx_out = [done |-> FALSE, ok |-> TRUE, context |-> <<>>]

StoreIdle ==
    /\ st_docs = <<>>
    /\ st_file = NoFile
    /\ st_out = NoStoreOut

PipelineIdle ==
    /\ fs = EmptyTree
    /\ now = 0
    /\ calls = 0
    /\ last = NoCall
    /\ returned = <<>>

\* the clock advances
Tick ==
    /\ now < MaxSecond
    /\ now' = now + 1
    /\ UNCHANGED <<fs, calls, last, returned, ctx_vars, store_vars, aux_vars>>

RunIngest ==
    /\ calls < MaxCalls
    /\ \E root \in Roots, files \in InputDirs, env \in IngestEnvs, u \in Uuids :
         LET create_embeddings == env[1]
             api_key == env[2]
             r == run_ingest(fs, files, root, create_embeddings, api_key, u,
                             env[3], now)
         IN /\ fs' = r.fs
            /\ last' = [op |-> "ingest", root |-> root, job_id |-> r.job_id,
                        create_embeddings |-> create_embeddings,
                        api_key |-> api_key, gen |-> GenError,
                        input |-> files, outcome |-> r.outcome]
            /\ returned' = IF r.outcome = "ok" THEN Append(returned, r.job_id)
                           ELSE returned
    /\ calls' = calls + 1
    /\ UNCHANGED <<now, ctx_vars, store_vars, aux_vars>>

RunSummarizer ==
    /\ calls < MaxCalls
    /\ \E root \in Roots, job_id \in JobIds, env \in SummarizerEnvs :
         LET api_key == env[1]
             gen == env[2]
             r == run_summarizer(fs, root, job_id, api_key, gen, now)
         IN /\ fs' = r.fs
            /\ last' = [op |-> "summarize", root |-> root, job_id |-> job_id,
                        create_embeddings |-> FALSE, api_key |-> api_key,
                        gen |-> gen, input |-> <<>>, outcome |-> r.outcome]
    /\ calls' = calls + 1
    /\ UNCHANGED <<now, returned, ctx_vars, store_vars, aux_vars>>

Init == PipelineInit /\ CtxIdle /\ StoreIdle /\ AuxIdle

Next == Tick \/ RunIngest \/ RunSummarizer

Spec == Init /\ [][Next]_vars

-----------------------------------------------------------------------------
(* The chunk store on its own *)

InitStore == PipelineIdle /\ CtxIdle /\ StoreInit /\ AuxIdle

NextStore ==
    \/ StoreSaveChunks /\ UNCHANGED <<pipeline_vars, ctx_vars, aux_vars>>
    \/ StoreLoadChunks /\ UNCHANGED <<pipeline_vars, ctx_vars, aux_vars>>
    \/ StoreSummarize /\ UNCHANGED <<pipeline_vars, ctx_vars, aux_vars>>

SpecStore == InitStore /\ [][NextStore]_vars

-----------------------------------------------------------------------------
(* prepare_context on its own, from any chunks and any budget *)

MaxChunks == 3
MaxBudget == 60

CtxTexts == {<<"a">>, <<SP>>, <<"a", "b">>}
CtxChunks == {JChunk(t, <<"a">>) : t \in CtxTexts} \cup {JEmptyObject}

NoCtxOut == [done |-> FALSE, ok |-> TRUE, context |-> <<>>]

CtxInit ==
    /\ ctx_chunks \in SeqsUpTo(CtxChunks, MaxChunks)
    /\ ctx_max \in 0..MaxBudget
    /\ ctx_out = NoCtxOut

\* summarizer.prepare_context(ctx_chunks, ctx_max)
PrepareContext ==
    /\ ~ctx_out.done
    /\ LET r == prepare_context(ctx_chunks, ctx_max)
       IN ctx_out' = [done |-> TRUE, ok |-> r.ok, context |-> r.context]
    /\ UNCHANGED <<ctx_chunks, ctx_max>>

InitCtx == PipelineIdle /\ CtxInit /\ StoreIdle /\ AuxIdle

NextCtx == PrepareContext /\ UNCHANGED <<pipeline_vars, store_vars, aux_vars>>

SpecCtx == InitCtx /\ [][NextCtx]_vars

-----------------------------------------------------------------------------
(* Properties *)

\* the step is a call, which last' describes
IsCall == calls' = calls + 1

LastPath == <<last.root, last.job_id>>

\* the chunk records json.loads returns for the split documents docs
AsChunks(docs) ==
    [i \in 1..Len(docs) |-> JChunk(docs[i].page_content, docs[i].metadata.source_file)]

\* C1: when the generation collaborator returns text that is not parseable
\* JSON, run_summarizer ends with an error and the job's brochure file is
\* what it was before the call (absent, or the earlier document).
C1_MalformedOutputWritesNothing ==
    [][(IsCall /\ last'.op = "summarize" /\ last'.gen.api = "ok"
            /\ last'.gen.syntax = "truncated")
       => /\ last'.outcome # "ok"
          /\ fs'[<<last'.root, last'.job_id>>].brochure
               = fs[<<last'.root, last'.job_id>>].brochure]_vars

\* a call whose answer did not parse ran on a job that holds a brochure
C1_Witness ==
    /\ last.op = "summarize"
    /\ last.outcome = "JSONDecodeError"
    /\ fs[LastPath].brochure.exists

\* C2: a generation answer that is parseable JSON without the seven sections
\* makes run_summarizer fail, and every brochure file holds all seven
\* sections.
C2_OnlyCompleteBrochuresAreSaved ==
    /\ \A p \in Paths :
         fs[p].brochure.exists => fs[p].brochure.doc.sections = Sections
    /\ (last.op = "summarize" /\ last.gen.api = "ok"
            /\ last.gen.syntax \in {"array", "object"}
            /\ ~(Sections \subseteq last.gen.sections))
       => last.outcome # "ok"

\* C3: the context prepare_context returns is at most max_chars long.
C3_ContextWithinBudget ==
    (ctx_out.done /\ ctx_out.ok) => Len(ctx_out.context) <= ctx_max

\* f"--- Chunk {k} ---\n{text}\n" of the k-th chunk
Tagged(chunks, k) == ChunkText(k, ChunkGetText(chunks[k]))

RECURSIVE TaggedLen(_, _, _)
\* the tagged texts of the first j chunks of idx, in characters
TaggedLen(chunks, idx, j) ==
    IF j = 0 THEN 0
    ELSE TaggedLen(chunks, idx, j - 1) + Len(Tagged(chunks, idx[j]))

\* the positions in idx whose tagged text pushes the running total over max
Overflowing(chunks, idx, max) ==
    {j \in 1..Len(idx) : TaggedLen(chunks, idx, j) > max}

FirstOverflow(chunks, idx, max) ==
    CHOOSE j \in Overflowing(chunks, idx, max) :
        \A i \in Overflowing(chunks, idx, max) : j <= i

\* the context made of the chunks idx names, in that order: all in full when
\* none overflows; else those before the first overflowing one in full, then
\* that one cut to the budget left, and none after it
ContextOf(chunks, idx, max) ==
    IF Overflowing(chunks, idx, max) = {}
    THEN Join([j \in 1..Len(idx) |-> Tagged(chunks, idx[j])], <<NL>>)
    ELSE LET f == FirstOverflow(chunks, idx, max)
         IN Join([j \in 1..f |->
                    IF j < f THEN Tagged(chunks, idx[j])
                    ELSE Take(Tagged(chunks, idx[f]),
                              max - TaggedLen(chunks, idx, f - 1))],
                 <<NL>>)

AllChunks(chunks) == [k \in 1..Len(chunks) |-> k]

\* the chunks whose text is not blank, in input order
NonBlankChunks(chunks) ==
    LET NonBlank(k) == Strip(ChunkGetText(chunks[k])) # <<>>
    IN SelectSeq(AllChunks(chunks), NonBlank)

\* C4 (as claimed): every chunk before the first overflowing one is in the
\* context in full and in input order, the overflowing one is cut to
\* max_chars minus the characters accumulated, none follows.
C4_OverflowingChunkIsCut_AsClaimed ==
    ctx_out.done => ctx_out.context = ContextOf(ctx_chunks, AllChunks(ctx_chunks), ctx_max)

\* C4 (amended): chunks whose text is blank are skipped and take no budget;
\* of the others, every chunk before the first overflowing one is in the
\* context in full and in input order, under its ordinal among all chunks,
\* the overflowing one is cut to max_chars minus the characters of the
\* tagged texts before it, none follows.
C4_OverflowingChunkIsCut ==
    ctx_out.done
    => ctx_out.context = ContextOf(ctx_chunks, NonBlankChunks(ctx_chunks), ctx_max)

\* three chunks with text, the second cut short of its text, the third left out
C4_Witness ==
    /\ ctx_out.done
    /\ NonBlankChunks(ctx_chunks) = <<1, 2, 3>>
    /\ FirstOverflow(ctx_chunks, <<1, 2, 3>>, ctx_max) = 2
    /\ ctx_max - TaggedLen(ctx_chunks, <<1, 2, 3>>, 1) = 5

\* a chunk record: an object with a text
IsRecord(v) == v.kind = "object" /\ v.has_text

\* the lines of the file that parse as chunk records, in file order
ValidRecords(file) ==
    LET lines == SplitLines(file.data)
    IN SelectSeq([i \in 1..Len(lines) |-> json_loads(Strip(lines[i]))], IsRecord)

\* C5: load_chunks of any file content returns the valid records in file
\* order without raising, and a summarization of a file with n valid records
\* processes n chunks and records chunks_processed = n.
C5_OnlyValidRecordsAreLoaded ==
    /\ (st_out.op = "load" /\ st_file.exists)
       => st_out.ok /\ st_out.chunks = ValidRecords(st_file)
    /\ (st_out.op = "summarize" /\ st_file.exists /\ ValidRecords(st_file) # <<>>)
       => st_out.ok /\ st_out.processed = Len(ValidRecords(st_file))

\* C6: load_chunks after save_chunks yields as many records as documents
\* were written, with the same text and metadata, in the same order.
C6_SaveLoadRoundTrip ==
    (st_out.op = "load" /\ st_out.written)
    => /\ st_out.ok
       /\ Len(st_out.chunks) = Len(st_docs)
       /\ \A i \in 1..Len(st_docs) :
            /\ st_out.chunks[i].has_text
            /\ st_out.chunks[i].text = st_docs[i].page_content
            /\ st_out.chunks[i].metadata = st_docs[i].metadata

\* two different documents, one with a newline in its text, were written and
\* read back
C6_Witness ==
    /\ st_out.op = "load"
    /\ st_out.written
    /\ Len(st_docs) = 2
    /\ st_docs[1] # st_docs[2]
    /\ NL \in Range(st_docs[1].page_content)

\* C7: the job ids run_ingest returns are pairwise distinct.
C7_JobIdsDistinct ==
    \A i, j \in 1..Len(returned) : i # j => returned[i] # returned[j]

\* C8: a run_ingest call leaves every job directory that existed before it
\* as it was.
C8_IngestIsAppendOnly ==
    [][(IsCall /\ last'.op = "ingest")
       => \A p \in Paths : fs[p].exists => fs'[p] = fs[p]]_vars

\* C9: run_ingest with create_embeddings and no credential fails on the
\* credential check, having written no chunk file.
C9_CredentialCheckedFirst ==
    [][(IsCall /\ last'.op = "ingest" /\ last'.create_embeddings
            /\ ~last'.api_key)
       => /\ last'.outcome = "ValueError"
          /\ \A p \in Paths : fs'[p].chunks = fs[p].chunks]_vars

\* C10: when the embedding step of run_ingest fails, the job's chunk file is
\* on disk and load_chunks reads from it every chunk of the call, in order;
\* with at least one chunk, generate_brochure accepts them.
C10_ChunksSurviveEmbeddingFailure ==
    (last.op = "ingest" /\ last.outcome \in {"ValueError", "EmbeddingError"})
    => LET expected == chunk_documents(load_documents(last.input).docs,
                                       ChunkSize, ChunkOverlap)
           r == load_chunks(fs[LastPath].chunks)
       IN /\ fs[LastPath].exists
          /\ fs[LastPath].chunks.exists
          /\ r.ok
          /\ r.chunks = AsChunks(expected)
          /\ expected # <<>> => generate_brochure(r.chunks, GoodGen, Model, now).ok

\* the embedding collaborator failed on a job of two chunks
C10_Witness ==
    /\ last.op = "ingest"
    /\ last.outcome = "EmbeddingError"
    /\ Len(load_chunks(fs[LastPath].chunks).chunks) = 2

-----------------------------------------------------------------------------
(* brochure.json as text: summarizer.save_brochure writes it with           *)
(* json.dump, app.load_brochure reads it with json.load.  A key with its    *)
(* punctuation and its value is one token; the numbers of _metadata are     *)
(* written digit by digit.                                                  *)

\* the sections in the order the keys are written
SectionOrder == <<"title", "subtitle", "intro_summary", "key_features",
                  "competitive_advantages", "how_it_works",
                  "additional_insights">>

RECURSIVE DumpSections(_, _)
DumpSections(order, present) ==
    IF order = <<>> THEN <<>>
    ELSE (IF Head(order) \in present THEN <<Head(order)>> ELSE <<>>)
           \o DumpSections(Tail(order), present)

\* json.dump(brochure, f, indent=2, ensure_ascii=False): the text written
json_dump_brochure(b) ==
    <<LB>> \o DumpSections(SectionOrder, b.sections)
        \o <<"_metadata", LB, "generated_at">>
        \o Decimal(b._metadata.generated_at)
        \o <<"model", b._metadata.model, "chunks_processed">>
        \o Decimal(b._metadata.chunks_processed) \o <<RB, RB>>

DigitValue(c) == CHOOSE d \in 0..9 : DigitChar(d) = c

RECURSIVE ScanSections(_, _, _)
ScanSections(s, i, acc) ==
    IF i <= Len(s) /\ s[i] \in Sections
    THEN ScanSections(s, i + 1, acc \cup {s[i]})
    ELSE [val |-> acc, next |-> i]

RECURSIVE ScanNumber(_, _, _)
ScanNumber(s, i, acc) ==
    IF i <= Len(s) /\ s[i] \in Digits
    THEN ScanNumber(s, i + 1, acc * 10 + DigitValue(s[i]))
    ELSE [ok |-> TRUE, val |-> acc, next |-> i]

ParseNumber(s, i) ==
    IF i <= Len(s) /\ s[i] \in Digits THEN ScanNumber(s, i, 0)
    ELSE [ok |-> FALSE, val |-> 0, next |-> i]

Expect(s, i, tok) == i <= Len(s) /\ s[i] = tok

BrochureError == [ok |-> FALSE, doc |-> NoBrochure]

\* json.load(f) of a file holding the text s: the brochure, or
\* JSONDecodeError when s is no complete JSON document
json_load_brochure(s) ==
    IF ~Expect(s, 1, LB) THEN BrochureError
    ELSE LET k == ScanSections(s, 2, {})
             i == k.next
         IN IF ~(Expect(s, i, "_metadata") /\ Expect(s, i + 1, LB)
                   /\ Expect(s, i + 2, "generated_at"))
            THEN BrochureError
            ELSE LET g == ParseNumber(s, i + 3)
                 IN IF ~g.ok \/ ~Expect(s, g.next, "model")
                         \/ g.next + 1 > Len(s)
                         \/ ~Expect(s, g.next + 2, "chunks_processed")
                    THEN BrochureError
                    ELSE LET c == ParseNumber(s, g.next + 3)
                         IN IF c.ok /\ Expect(s, c.next, RB)
                                 /\ Expect(s, c.next + 1, RB)
                                 /\ c.next + 1 = Len(s)
                            THEN [ok |-> TRUE,
                                  doc |-> [sections |-> k.val,
                                           _metadata |->
                                             [generated_at |-> g.val,
                                              model |-> s[g.next + 1],
                                              chunks_processed |-> c.val]]]
                            ELSE BrochureError

save_brochure_text_merging(file, brochure) ==
    LET old == IF file.exists THEN json_load_brochure(file.data)
               ELSE BrochureError
    IN File(json_dump_brochure(
              [brochure EXCEPT !.sections = @ \cup old.doc.sections]))

\* the content of output_path after save_brochure(brochure, output_path),
\* file being its content before: open(output_path, "w") empties the file
\* and json.dump writes the whole brochure
save_brochure_text(file, brochure) == File(json_dump_brochure(brochure))

\* the results of load_brochure: None, the loaded brochure, or the
\* exception it raises
LoadNone == [result |-> "None", doc |-> NoBrochure]
LoadDoc(d) == [result |-> "brochure", doc |-> d]
LoadRaise(e) == [result |-> e, doc |-> NoBrochure]

load_brochure_unguarded(dir, file) ==
    IF ~(dir /\ file.exists) THEN LoadRaise("FileNotFoundError")
    ELSE LET r == json_load_brochure(file.data)
         IN IF r.ok THEN LoadDoc(r.doc) ELSE LoadRaise("JSONDecodeError")

\* load_brochure(job_id), dir telling whether JOBS_DIR / job_id exists and
\* file being brochure.json in it: None unless brochure_path.exists()
load_brochure(dir, file) ==
    IF ~(dir /\ file.exists) THEN LoadNone
    ELSE LET r == json_load_brochure(file.data)
         IN IF r.ok THEN LoadDoc(r.doc) ELSE LoadRaise("JSONDecodeError")

-----------------------------------------------------------------------------
(* The brochure store on its own: saves and loads of one job's brochure.json *)

MaxStamp == 11
MaxCount == 2

\* brochures to save: all sections, one section or none, with the metadata
\* of a generation at any second from any number of chunks
BrBrochures ==
    {[sections |-> S,
      _metadata |-> [generated_at |-> t, model |-> Model,
                     chunks_processed |-> n]] :
        S \in {Sections, {"title"}, {}}, t \in {0, MaxStamp}, n \in 1..MaxCount}

\* dir: the job directory exists; file: brochure.json; saved, before: the
\* brochure of the last save and of the save before it; out: the result of
\* the last load
BrInit ==
    /\ br \in {[op |-> "init", dir |-> d, file |-> NoFile,
                saved |-> NoBrochure, before |-> NoBrochure,
                out |-> LoadNone] : d \in BOOLEAN}

\* save_brochure(b, output_path): the directory is made when missing
BrSaveBrochure ==
    \E b \in BrBrochures :
        br' = [op |-> "save", dir |-> TRUE,
               file |-> save_brochure_text(br.file, b),
               saved |-> b, before |-> br.saved, out |-> br.out]

BrLoadBrochure ==
    br' = [br EXCEPT !.op = "load", !.out = load_brochure(br.dir, br.file)]

InitBrochure ==
    /\ PipelineIdle /\ CtxIdle /\ StoreIdle
    /\ BrInit /\ ConcIdle /\ ListIdle /\ SplitIdle /\ AppIdle /\ JobsIdle

NextBrochure ==
    \/ BrSaveBrochure
         /\ UNCHANGED <<pipeline_vars, ctx_vars, store_vars, conc, lst, split, app, jobs>>
    \/ BrLoadBrochure
         /\ UNCHANGED <<pipeline_vars, ctx_vars, store_vars, conc, lst, split, app, jobs>>

SpecBrochure == InitBrochure /\ [][NextBrochure]_vars

\* C11: load_brochure of a job that has no brochure.json, its directory
\* existing or not, returns None and raises nothing.
C11_LoadOfUnsummarizedJobIsNone ==
    (br.op = "load" /\ ~br.file.exists) => br.out = LoadNone

\* a load of a job whose directory does not exist
C11_Witness == br.op = "load" /\ ~br.dir /\ ~br.file.exists

\* C12: whatever was saved before, a load after a save returns exactly the
\* brochure of the last save: every field of it and no field of an earlier
\* one.
C12_LoadReturnsLastSaved ==
    (br.op = "load" /\ br.file.exists) => br.out = LoadDoc(br.saved)

\* a load after a save that replaced a brochure with more sections
C12_Witness ==
    /\ br.op = "load"
    /\ br.before.sections = Sections
    /\ br.saved.sections = {"title"}
    /\ br.saved._metadata.generated_at = MaxStamp

-----------------------------------------------------------------------------
\* C13: a summarization of a job without chunks (chunks.jsonl absent, or
\* holding no valid record) fails with a not-found error before the
\* generation collaborator is called, so no brochure comes out of it.
C13_NoChunksIsNotFound ==
    (st_out.op = "summarize"
       /\ (~st_file.exists \/ ValidRecords(st_file) = <<>>))
    => ~st_out.ok /\ st_out.error = "FileNotFoundError"

-----------------------------------------------------------------------------
\* the files of an input directory that can be ingested: a supported
\* extension and a content the loader accepts
Ingestible(file) == Lower(file.ext) \in {".pdf", ".docx"} /\ file.readable

\* C14: a file that cannot be ingested (unsupported extension, or rejected
\* by its loader) is skipped: the run does not fail in loading, and the
\* chunks persisted are those of all the other files.
C14_BadFileIsSkipped ==
    last.op = "ingest"
    => /\ last.outcome # "LoaderError"
       /\ load_chunks(fs[LastPath].chunks).chunks
            = AsChunks(chunk_documents(
                         load_documents(SelectSeq(last.input, Ingestible)).docs,
                         ChunkSize, ChunkOverlap))

-----------------------------------------------------------------------------
\* C15: the _metadata of a saved brochure is the one the stage attaches:
\* whatever the generation answer holds, also a "_metadata" key of its own,
\* a successful run_summarizer saves _metadata = {generated_at, model,
\* chunks_processed} with the configured model and the number of chunks it
\* loaded.
C15_MetadataIsTheStages ==
    [][(IsCall /\ last'.op = "summarize" /\ last'.outcome = "ok")
       => LET p == <<last'.root, last'.job_id>>
          IN /\ fs'[p].brochure.exists
             /\ fs'[p].brochure.doc._metadata
                  = [generated_at |-> now, model |-> Model,
                     chunks_processed |->
                       Len(load_chunks(fs[p].chunks).chunks)]]_vars

\* a successful summarization whose answer carried a "_metadata" key
C15_Witness ==
    /\ last.op = "summarize"
    /\ last.outcome = "ok"
    /\ "_metadata" \in last.gen.sections
    /\ fs[LastPath].brochure.doc._metadata.model = Model

-----------------------------------------------------------------------------
(* Two executions of run_summarizer on one job, step by step.  Each has     *)
(* generated its brochure and runs save_brochure: open(output_path, "w")    *)
(* empties the file and gives the execution a position of its own; the      *)
(* text json.dump produces reaches the file in one or more writes, each at  *)
(* the writer's position.  load_brochure may run between any two steps.     *)

Procs == {"A", "B"}

NUL == "NUL"

\* the brochures the two executions generated
ConcBrochures ==
    {[sections |-> S,
      _metadata |-> [generated_at |-> 0, model |-> Model,
                     chunks_processed |-> 1]] :
        S \in {{"title", "subtitle"}, {}}}

\* the file content after a write of piece at position pos: the bytes there
\* are replaced, the file grows as needed, a gap is read as zero bytes
WriteAt(data, pos, piece) ==
    LET n == IF Len(data) > pos + Len(piece) THEN Len(data)
             ELSE pos + Len(piece)
    IN [i \in 1..n |->
          IF i > pos /\ i <= pos + Len(piece) THEN piece[i - pos]
          ELSE IF i <= Len(data) THEN data[i]
          ELSE NUL]

ConcInit ==
    conc \in {[op |-> "init", file |-> NoFile,
               pc |-> [p \in Procs |-> "generated"],
               pos |-> [p \in Procs |-> 0],
               doc |-> d, writer |-> "none", out |-> LoadNone] :
                 d \in [Procs -> ConcBrochures]}

\* with open(output_path, "w", encoding="utf-8") as f
ConcOpen(p) ==
    /\ conc.pc[p] = "generated"
    /\ conc' = [conc EXCEPT !.op = "open", !.file = File(<<>>),
                            !.pc[p] = "open", !.pos[p] = 0]

\* json.dump(brochure, f, ...) and the end of the with block: the next
\* piece of the text is written; after the last piece the file is closed
ConcWrite(p) ==
    /\ conc.pc[p] = "open"
    /\ LET text == json_dump_brochure(conc.doc[p])
       IN \E k \in 1..(Len(text) - conc.pos[p]) :
            conc' = [conc EXCEPT
                       !.op = "write",
                       !.file = File(WriteAt(conc.file.data, conc.pos[p],
                                             SubSeq(text, conc.pos[p] + 1,
                                                    conc.pos[p] + k))),
                       !.pos[p] = @ + k,
                       !.pc[p] = IF conc.pos[p] + k = Len(text) THEN "done"
                                 ELSE "open",
                       !.writer = p]

\* load_brochure(job_id) by the front end
ConcLoad ==
    /\ conc' = [conc EXCEPT !.op = "load",
                            !.out = load_brochure(TRUE, conc.file)]

InitConc ==
    /\ PipelineIdle /\ CtxIdle /\ StoreIdle
    /\ BrIdle /\ ConcInit /\ ListIdle /\ SplitIdle /\ AppIdle /\ JobsIdle

NextConc ==
    \/ \E p \in Procs : ConcOpen(p)
         /\ UNCHANGED <<pipeline_vars, ctx_vars, store_vars, br, lst, split, app, jobs>>
    \/ \E p \in Procs : ConcWrite(p)
         /\ UNCHANGED <<pipeline_vars, ctx_vars, store_vars, br, lst, split, app, jobs>>
    \/ ConcLoad
         /\ UNCHANGED <<pipeline_vars, ctx_vars, store_vars, br, lst, split, app, jobs>>

SpecConc == InitConc /\ [][NextConc]_vars

\* C16: when both executions have finished, brochure.json is exactly the
\* complete brochure of the execution that wrote last, and a load at any
\* moment returns None or a complete brochure of one of the two, never a
\* partial or mixed document.
C16_LastWriterWins ==
    /\ (\A p \in Procs : conc.pc[p] = "done")
       => conc.file = File(json_dump_brochure(conc.doc[conc.writer]))
    /\ conc.op = "load"
       => \/ conc.out = LoadNone
          \/ \E p \in Procs : conc.out = LoadDoc(conc.doc[p])

-----------------------------------------------------------------------------
(* The list of previous jobs: the directories of JOBS_DIR sorted by name,   *)
(* descending.  A job directory's name is its job id as run_ingest writes   *)
(* it: the creation time as fixed-width decimal fields, "_", and eight      *)
(* characters of a uuid.  The model keeps the minute and second fields.     *)

\* the characters of a job id, in code point order
Alphabet == <<"0", "1", "2", "3", "4", "5", "6", "7", "8", "9", "_",
              "a", "b", "c", "d", "e", "f">>

Ord(c) == CHOOSE i \in 1..Len(Alphabet) : Alphabet[i] = c

UuidText(u) ==
    IF u = "0a1b2c3d" THEN <<"0", "a", "1", "b", "2", "c", "3", "d">>
    ELSE <<"b", "c", "7", "5", "2", "1", "f", "f">>

\* a %M or %S field: two digits, zero-padded
Pad2(n) == <<DigitChar(n \div 10), DigitChar(n % 10)>>

JobNameUnpadded(job_id) ==
    Decimal((job_id.ts \div 60) % 60) \o Decimal(job_id.ts % 60)
        \o <<"_">> \o UuidText(job_id.uid)

\* datetime.now().strftime("%Y%m%d_%H%M%S_") + str(uuid.uuid4())[:8] for a
\* job created ts seconds into the hour
JobName(job_id) ==
    Pad2((job_id.ts \div 60) % 60) \o Pad2(job_id.ts % 60)
        \o <<"_">> \o UuidText(job_id.uid)

RECURSIVE StrLess(_, _)
\* a < b for two Python strings
StrLess(a, b) ==
    IF b = <<>> THEN FALSE
    ELSE IF a = <<>> THEN TRUE
    ELSE IF Head(a) # Head(b) THEN Ord(Head(a)) < Ord(Head(b))
    ELSE StrLess(Tail(a), Tail(b))

RECURSIVE InsertDesc(_, _)
InsertDesc(x, sorted) ==
    IF sorted = <<>> THEN <<x>>
    ELSE IF StrLess(Head(sorted), x) THEN <<x>> \o sorted
    ELSE <<Head(sorted)>> \o InsertDesc(x, Tail(sorted))

RECURSIVE SortedDesc(_)
\* sorted(names, reverse=True)
SortedDesc(names) ==
    IF names = <<>> THEN <<>>
    ELSE InsertDesc(names[Len(names)], SortedDesc(SubSeq(names, 1, Len(names) - 1)))

IsDir(entry) == entry.is_dir

\* job_options: the names of the directories among the entries of JOBS_DIR,
\* sorted by name, descending
job_options(entries) ==
    LET dirs == SelectSeq(entries, IsDir)
    IN SortedDesc([i \in 1..Len(dirs) |-> JobName(dirs[i].job_id)])

MaxJobs == 3

\* creation times, in seconds into the hour
ListTimes == {0, 9, 10, 59, 60}

\* what JOBS_DIR may hold: job directories and a plain file
ListEntries ==
    {[job_id |-> JobId(t, u), is_dir |-> TRUE] : t \in ListTimes, u \in Uuids}
      \cup {[job_id |-> JobId(0, "0a1b2c3d"), is_dir |-> FALSE]}

NoRepeat(s) == \A i, j \in 1..Len(s) : s[i].job_id = s[j].job_id => i = j

\* JOBS_DIR.iterdir() yields its entries in any order
ListInit ==
    lst \in {[op |-> "init", entries |-> es, shown |-> <<>>] :
               es \in {s \in SeqsUpTo(ListEntries, MaxJobs) : NoRepeat(s)}}

\* the Previous Jobs tab is drawn
ListJobs ==
    lst' = [lst EXCEPT !.op = "list", !.shown = job_options(lst.entries)]

InitList ==
    /\ PipelineIdle /\ CtxIdle /\ StoreIdle
    /\ BrIdle /\ ConcIdle /\ ListInit /\ SplitIdle /\ AppIdle /\ JobsIdle

NextList ==
    ListJobs
      /\ UNCHANGED <<pipeline_vars, ctx_vars, store_vars, br, conc, split, app, jobs>>

SpecList == InitList /\ [][NextList]_vars

Position(s, x) == CHOOSE i \in 1..Len(s) : s[i] = x

\* C17: the list of previous jobs holds every job directory once, in
\* descending order of name, and of two jobs created in different seconds
\* the one created later comes first.
C17_NewestJobFirst ==
    lst.op = "list"
    => LET dirs == SelectSeq(lst.entries, IsDir)
       IN /\ Len(lst.shown) = Len(dirs)
          /\ \A i \in 1..Len(dirs) : JobName(dirs[i].job_id) \in Range(lst.shown)
          /\ \A i, j \in 1..Len(lst.shown) :
               i < j => StrLess(lst.shown[j], lst.shown[i])
          /\ \A i, j \in 1..Len(dirs) :
               dirs[i].job_id.ts < dirs[j].job_id.ts
               => Position(lst.shown, JobName(dirs[j].job_id))
                    < Position(lst.shown, JobName(dirs[i].job_id))

\* a list of three jobs created at seconds 9, 10 and 60, found in another
\* order
C17_Witness ==
    /\ lst.op = "list"
    /\ Len(lst.shown) = 3
    /\ {lst.entries[i].job_id.ts : i \in 1..Len(lst.entries)} = {9, 10, 60}
    /\ lst.entries[1].job_id.ts = 9

-----------------------------------------------------------------------------
(* chunk_documents on its own, from any document and any sizes.  split_text *)
(* describes the splitter for a text that fits one chunk and for a longer   *)
(* text without separators, so only such texts are drawn.                   *)

MaxTextLen == 5
MaxSize == 3

SplitChars == {"a", "b", SP}

HasSeparator(text) == \E i \in 1..Len(text) : IsSpace(text[i])

SplitInit ==
    /\ split \in
         {[op |-> "init", text |-> t, chunk_size |-> n,
                chunk_overlap |-> o, chunks |-> <<>>] :
                 t \in {x \in SeqsUpTo(SplitChars, MaxTextLen) : x # <<>>},
                 n \in 1..MaxSize, o \in 0..(MaxSize - 1)}
    /\ split.chunk_overlap < split.chunk_size
    /\ (Len(split.text) <= split.chunk_size \/ ~HasSeparator(split.text))

\* chunk_documents([doc], chunk_size, chunk_overlap): the chunks' texts
SplitDocuments ==
    LET doc == [page_content |-> split.text,
                metadata |-> [source_file |-> <<"a">>]]
        split_docs == chunk_documents(<<doc>>, split.chunk_size,
                                      split.chunk_overlap)
    IN split' = [split EXCEPT
                   !.op = "split",
                   !.chunks = [i \in 1..Len(split_docs) |->
                                 split_docs[i].page_content]]

InitSplit ==
    /\ PipelineIdle /\ CtxIdle /\ StoreIdle
    /\ BrIdle /\ ConcIdle /\ ListIdle /\ SplitInit /\ AppIdle /\ JobsIdle

NextSplit ==
    SplitDocuments
      /\ UNCHANGED <<pipeline_vars, ctx_vars, store_vars, br, conc, lst, app, jobs>>

SpecSplit == InitSplit /\ [][NextSplit]_vars

RECURSIVE Reassemble(_, _)
\* the chunks put together again: every chunk after the first without the
\* chunk_overlap characters it shares with the one before
Reassemble(chunks, chunk_overlap) ==
    IF chunks = <<>> THEN <<>>
    ELSE IF Len(chunks) = 1 THEN chunks[1]
    ELSE LET front == SubSeq(chunks, 1, Len(chunks) - 1)
             tail == chunks[Len(chunks)]
         IN Reassemble(front, chunk_overlap)
              \o SubSeq(tail, chunk_overlap + 1, Len(tail))

\* C18: for a non-empty text (here: one that is not only whitespace) and
\* chunk_size > chunk_overlap >= 0 the chunks are at most chunk_size long,
\* come in reading order and, put together without their overlaps, give
\* back the text exactly.
C18_ChunksReconstructText ==
    (split.op = "split" /\ Strip(split.text) # <<>>)
    => /\ \A i \in 1..Len(split.chunks) :
            Len(split.chunks[i]) <= split.chunk_size
       /\ Reassemble(split.chunks, split.chunk_overlap) = split.text

-----------------------------------------------------------------------------
(* The front end's Start Processing handler (app.py): run_ingest, then      *)
(* run_summarizer(job_id=job_id), then load_brochure(job_id), each stage    *)
(* with the job root its own code names.  The handler calls run_ingest()    *)
(* without arguments; the calls another caller makes (the ingest script,    *)
(* a caller that passes input_dir) are drawn as well, so that the stages    *)
(* after a successful ingest are reached.                                   *)

\* output_root of run_ingest, jobs_root of run_summarizer, JOBS_DIR of app.py
IngestDefaultRoot == "./data/jobs"
SummarizerDefaultRoot == "./jobss"
JOBS_DIR == "./jobs"

AppRoots == {IngestDefaultRoot, SummarizerDefaultRoot, JOBS_DIR}
AppJobIds == {JobId(0, u) : u \in Uuids}
AppPaths == AppRoots \X AppJobIds

\* a call of run_ingest: whether input_dir is passed, the output_root passed
\* ("default" when none is) and create_embeddings
AppCall == [has_input_dir |-> FALSE, output_root |-> "default",
            create_embeddings |-> TRUE]
IngestCalls ==
    {AppCall}
      \cup {[has_input_dir |-> TRUE, output_root |-> r, create_embeddings |-> c] :
              r \in {"default", SummarizerDefaultRoot, JOBS_DIR},
              c \in BOOLEAN}

OutputRoot(call) ==
    IF call.output_root = "default" THEN IngestDefaultRoot ELSE call.output_root

\* the dict run_ingest returns
ingest_result(root, job_id, created) ==
    [job_id |-> job_id,
     job_dir |-> <<root, job_id>>,
     chunks_path |-> <<root, job_id, "chunks.jsonl">>,
     chroma_dir |-> <<root, job_id, "chroma_db", created>>,
     embeddings_created |-> created]

\* result.get('n_chunks', 0)
chunks_created(result) ==
    IF "n_chunks" \in DOMAIN result THEN result.n_chunks ELSE 0

\* brochure.json of a directory of the tree, as text
BrochureText(dir) ==
    IF dir.brochure.exists THEN File(json_dump_brochure(dir.brochure.doc))
    ELSE NoFile

NoApp == [pc |-> "start", tree |-> [p \in AppPaths |-> NoDir], call |-> AppCall,
          api_key |-> TRUE, job_id |-> JobId(0, "0a1b2c3d"),
          keys |-> {}, shown |-> 0, persisted |-> 0,
          outcome |-> "none", brochure |-> LoadNone]

AppInit == app \in {[NoApp EXCEPT !.api_key = k] : k \in BOOLEAN}

\* result = run_ingest(...), job_id = result.get("job_id"), the metrics
AppIngest ==
    /\ app.pc = "start"
    /\ \E call \in IngestCalls, files \in InputDirs, u \in Uuids,
          embed_ok \in BOOLEAN :
         IF ~call.has_input_dir
         THEN app' = [app EXCEPT !.pc = "ingest failed", !.call = call,
                                 !.outcome = "TypeError"]
         ELSE LET root == OutputRoot(call)
                  r == run_ingest(app.tree, files, root, call.create_embeddings,
                                  app.api_key, u, embed_ok, 0)
                  result == ingest_result(root, r.job_id, call.create_embeddings)
              IN IF r.outcome # "ok"
                 THEN app' = [app EXCEPT !.pc = "ingest failed", !.call = call,
                                         !.tree = r.fs, !.outcome = r.outcome]
                 ELSE app' = [app EXCEPT
                                !.pc = "ingested", !.call = call,
                                !.tree = r.fs, !.outcome = "ok",
                                !.job_id = result.job_id,
                                !.keys = DOMAIN result,
                                !.shown = chunks_created(result),
                                !.persisted =
                                  Len(load_chunks(r.fs[<<root, r.job_id>>].chunks).chunks)]

\* sum_result = run_summarizer(job_id=job_id)
AppSummarize ==
    /\ app.pc = "ingested"
    /\ \E gen \in {GoodGen, GenError} :
         LET r == run_summarizer(app.tree, SummarizerDefaultRoot, app.job_id,
                                 app.api_key, gen, 0)
         IN app' = [app EXCEPT
                      !.pc = IF r.outcome = "ok" THEN "summarized"
                             ELSE "summarizer failed",
                      !.tree = r.fs, !.outcome = r.outcome]

\* brochure = load_brochure(job_id)
AppLoadBrochure ==
    /\ app.pc = "summarized"
    /\ LET dir == app.tree[<<JOBS_DIR, app.job_id>>]
       IN app' = [app EXCEPT
                    !.pc = "loaded",
                    !.brochure = load_brochure(dir.exists, BrochureText(dir))]

InitApp ==
    /\ PipelineIdle /\ CtxIdle /\ StoreIdle
    /\ BrIdle /\ ConcIdle /\ ListIdle /\ SplitIdle /\ AppInit /\ JobsIdle

NextApp ==
    \/ AppIngest
         /\ UNCHANGED <<pipeline_vars, ctx_vars, store_vars, br, conc, lst, split, jobs>>
    \/ AppSummarize
         /\ UNCHANGED <<pipeline_vars, ctx_vars, store_vars, br, conc, lst, split, jobs>>
    \/ AppLoadBrochure
         /\ UNCHANGED <<pipeline_vars, ctx_vars, store_vars, br, conc, lst, split, jobs>>

SpecApp == InitApp /\ [][NextApp]_vars

IngestSucceeded == app.pc \notin {"start", "ingest failed"}

\* C19: the dict a successful run_ingest returns holds the job id and a
\* chunk count equal to the number of records persisted in chunks.jsonl,
\* and the front end shows that count as Chunks Created.
C19_ChunkCountIsReturnedAndShown ==
    IngestSucceeded
    => /\ "job_id" \in app.keys
       /\ "n_chunks" \in app.keys
       /\ app.shown = app.persisted

\* C20: after a successful run_ingest, run_summarizer(job_id=job_id) finds
\* the chunk file that ingest wrote, and load_brochure(job_id) returns the
\* brochure that summarization saved.
C20_StagesShareOneJobDirectory ==
    /\ (IngestSucceeded /\ app.pc = "summarizer failed")
       => app.outcome # "FileNotFoundError"
    /\ app.pc = "loaded"
       => app.brochure
            = LoadDoc(app.tree[<<SummarizerDefaultRoot, app.job_id>>].brochure.doc)

-----------------------------------------------------------------------------
(* Jobs over time: ingests, summarizations, renderings (bro_pdf.py) and     *)
(* embeddings (embd_agent.py) of the jobs under one root, one after         *)
(* another.  A job directory also holds its rendered PDF and has a          *)
(* modification time, which is the number of the operation that created it  *)
(* or last added an entry to it.                                            *)

MaxOps == 3

NoJobDir == [exists |-> FALSE, chunks |-> NoFile, brochure |-> NoBrochureFile,
             chroma |-> FALSE, pdf |-> FALSE, mtime |-> 0]

\* which entries a job directory has
DirEntries(d) == <<d.chunks.exists, d.brochure.exists, d.chroma, d.pdf>>

\* st_mtime of the job directories after an operation that started with
\* the tree before and ended with the tree after: the time of a directory
\* is set when it is created and when an entry is added to it; rewriting a
\* file that exists leaves it as it was
Touch(before, after, t) ==
    [p \in DOMAIN after |->
       IF after[p].exists
            /\ (~before[p].exists \/ DirEntries(after[p]) # DirEntries(before[p]))
       THEN [after[p] EXCEPT !.mtime = t]
       ELSE after[p]]

ExistingJobs(tree) == {p \in DOMAIN tree : tree[p].exists}

NoLatest == [found |-> FALSE, path |-> <<SummarizerDefaultRoot, JobId(0, "0a1b2c3d")>>]

\* find_latest_job(jobs_root) of bro_pdf.py and get_latest_job_dir(base_dir)
\* of embd_agent.py: the directory with the greatest modification time;
\* the one raises FileNotFoundError, the other returns None, when there is
\* no directory
find_latest_job(tree) ==
    IF ExistingJobs(tree) = {} THEN NoLatest
    ELSE [found |-> TRUE,
          path |-> CHOOSE p \in ExistingJobs(tree) :
                     \A q \in ExistingJobs(tree) : tree[q].mtime <= tree[p].mtime]

bro_pdf_main_unchecked(tree, given, job_id, render_ok) ==
    LET latest == find_latest_job(tree)
        p == IF given THEN <<SummarizerDefaultRoot, job_id>> ELSE latest.path
    IN IF ~given /\ ~latest.found
       THEN [fs |-> tree, outcome |-> "FileNotFoundError"]
       ELSE IF ~tree[p].exists
       THEN [fs |-> tree, outcome |-> "FileNotFoundError"]
       ELSE IF ~render_ok THEN [fs |-> tree, outcome |-> "RenderError"]
       ELSE [fs |-> [tree EXCEPT ![p].pdf = TRUE], outcome |-> "ok"]

\* main() of bro_pdf.py, with --job_id job_id when given and the latest job
\* otherwise: the PDF is written into the job directory after brochure.json
\* was found and read; render_ok tells whether building the PDF succeeds
bro_pdf_main(tree, given, job_id, render_ok) ==
    LET latest == find_latest_job(tree)
        p == IF given THEN <<SummarizerDefaultRoot, job_id>> ELSE latest.path
    IN IF ~given /\ ~latest.found
       THEN [fs |-> tree, outcome |-> "FileNotFoundError"]
       ELSE IF ~tree[p].exists
       THEN [fs |-> tree, outcome |-> "FileNotFoundError"]
       ELSE IF ~tree[p].brochure.exists
       THEN [fs |-> tree, outcome |-> "FileNotFoundError"]
       ELSE IF ~render_ok THEN [fs |-> tree, outcome |-> "RenderError"]
       ELSE [fs |-> [tree EXCEPT ![p].pdf = TRUE], outcome |-> "ok"]

\* run_embedding(job_dir): returns early without chunks.jsonl or without
\* the key, otherwise writes chroma_db
run_embedding(tree, p, api_key) ==
    IF ~tree[p].chunks.exists THEN [fs |-> tree, outcome |-> "no chunks"]
    ELSE IF ~api_key THEN [fs |-> tree, outcome |-> "no key"]
    ELSE [fs |-> [tree EXCEPT ![p].chroma = TRUE], outcome |-> "ok"]

\* the main block of embd_agent.py
embd_agent_main(tree, api_key) ==
    LET latest == find_latest_job(tree)
    IN IF ~latest.found THEN [fs |-> tree, outcome |-> "no job"]
       ELSE run_embedding(tree, latest.path, api_key)

\* what an input directory holds, for the ingests of this specification
JobInputs == {<<FileA>>, <<FileA, FileBroken>>}

NoJobCall == [op |-> "none", job_id |-> JobId(0, "0a1b2c3d"),
              latest |-> FALSE, outcome |-> "none"]

JobsInit ==
    jobs = [tree |-> [p \in Paths |-> NoJobDir], now |-> 0, ops |-> 0,
            last |-> NoJobCall]

JobsTick ==
    /\ jobs.now < MaxSecond
    /\ jobs' = [jobs EXCEPT !.now = @ + 1]

JobsIngest ==
    /\ jobs.ops < MaxOps
    /\ \E files \in JobInputs, u \in Uuids :
         LET r == run_ingest(jobs.tree, files, SummarizerDefaultRoot, FALSE,
                             TRUE, u, TRUE, jobs.now)
         IN jobs' = [jobs EXCEPT
                       !.tree = Touch(jobs.tree, r.fs, jobs.ops + 1),
                       !.ops = @ + 1,
                       !.last = [op |-> "ingest", job_id |-> r.job_id,
                                 latest |-> FALSE, outcome |-> r.outcome]]

JobsSummarize ==
    /\ jobs.ops < MaxOps
    /\ \E job_id \in JobIds, gen \in {GoodGen, GenError} :
         LET r == run_summarizer(jobs.tree, SummarizerDefaultRoot, job_id,
                                 TRUE, gen, jobs.now)
         IN jobs' = [jobs EXCEPT
                       !.tree = Touch(jobs.tree, r.fs, jobs.ops + 1),
                       !.ops = @ + 1,
                       !.last = [op |-> "summarize", job_id |-> job_id,
                                 latest |-> FALSE, outcome |-> r.outcome]]

JobsRender ==
    /\ jobs.ops < MaxOps
    /\ \E given \in BOOLEAN, job_id \in JobIds, render_ok \in BOOLEAN :
         LET r == bro_pdf_main(jobs.tree, given, job_id, render_ok)
         IN jobs' = [jobs EXCEPT
                       !.tree = Touch(jobs.tree, r.fs, jobs.ops + 1),
                       !.ops = @ + 1,
                       !.last = [op |-> "render",
                                 job_id |-> IF given THEN job_id
                                            ELSE find_latest_job(jobs.tree).path[2],
                                 latest |-> ~given, outcome |-> r.outcome]]

JobsEmbed ==
    /\ jobs.ops < MaxOps
    /\ \E api_key \in BOOLEAN :
         LET r == embd_agent_main(jobs.tree, api_key)
         IN jobs' = [jobs EXCEPT
                       !.tree = Touch(jobs.tree, r.fs, jobs.ops + 1),
                       !.ops = @ + 1,
                       !.last = [op |-> "embed",
                                 job_id |-> find_latest_job(jobs.tree).path[2],
                                 latest |-> TRUE, outcome |-> r.outcome]]

InitJobs ==
    /\ PipelineIdle /\ CtxIdle /\ StoreIdle
    /\ BrIdle /\ ConcIdle /\ ListIdle /\ SplitIdle /\ AppIdle /\ JobsInit

NextJobs ==
    \/ JobsTick
         /\ UNCHANGED <<pipeline_vars, ctx_vars, store_vars, br, conc, lst, split, app>>
    \/ JobsIngest
         /\ UNCHANGED <<pipeline_vars, ctx_vars, store_vars, br, conc, lst, split, app>>
    \/ JobsSummarize
         /\ UNCHANGED <<pipeline_vars, ctx_vars, store_vars, br, conc, lst, split, app>>
    \/ JobsRender
         /\ UNCHANGED <<pipeline_vars, ctx_vars, store_vars, br, conc, lst, split, app>>
    \/ JobsEmbed
         /\ UNCHANGED <<pipeline_vars, ctx_vars, store_vars, br, conc, lst, split, app>>

SpecJobs == InitJobs /\ [][NextJobs]_vars

\* C21: after any sequence of ingests, summarizations, renderings and
\* embeddings, successful or failed, a job directory with a brochure file
\* has a chunk file, a job directory with a rendered PDF has a brochure
\* file, and a job directory that existed still exists.
C21_ArtifactsFollowPipelineOrder ==
    [][\A p \in Paths :
         /\ jobs.tree[p].exists => jobs'.tree[p].exists
         /\ jobs'.tree[p].brochure.exists => jobs'.tree[p].chunks.exists
         /\ jobs'.tree[p].pdf => jobs'.tree[p].brochure.exists
         /\ jobs'.tree[p].chunks.exists => jobs'.tree[p].exists]_vars

\* a rendering has just succeeded and a job holds all three artifacts
C21_Witness ==
    /\ jobs.last.op = "render"
    /\ jobs.last.outcome = "ok"
    /\ \E p \in Paths :
         jobs.tree[p].pdf /\ jobs.tree[p].brochure.exists
           /\ jobs.tree[p].chunks.exists

-----------------------------------------------------------------------------
\* C22: a call of run_summarizer for job J, successful or failed, leaves
\* J's chunk file and everything else of J's directory but brochure.json as
\* it was, and leaves every other job directory as it was.
C22_SummarizationOnlyWritesTheBrochure ==
    [][(IsCall /\ last'.op = "summarize")
       => \A p \in Paths :
            IF p = <<last'.root, last'.job_id>>
            THEN /\ fs'[p].chunks = fs[p].chunks
                 /\ fs'[p] = [fs[p] EXCEPT !.brochure = fs'[p].brochure]
            ELSE fs'[p] = fs[p]]_vars

\* a successful summarization of one job while another job holds a chunk
\* file and a brochure
C22_Witness ==
    /\ last.op = "summarize"
    /\ last.outcome = "ok"
    /\ fs[LastPath].chunks.data # <<>>
    /\ \E p \in Paths :
         p # LastPath /\ fs[p].chunks.exists /\ fs[p].brochure.exists

-----------------------------------------------------------------------------
\* the entries of a jobs root as iterdir yields them, in some order
RECURSIVE EntriesOf(_, _)
EntriesOf(tree, paths) ==
    IF paths = {} THEN <<>>
    ELSE LET p == CHOOSE q \in paths : TRUE
         IN <<[job_id |-> p[2], is_dir |-> TRUE]>>
              \o EntriesOf(tree, paths \ {p})

\* the list of previous jobs of a tree
ListedJobs(tree) ==
    job_options(EntriesOf(tree, {p \in DOMAIN tree : tree[p].exists}))

\* C23: an ingest that fails while loading leaves a job directory without
\* a chunk file; the directory is in the list of previous jobs, and a
\* summarization of it (with the key set) fails with FileNotFoundError.
C23_FailedIngestLeavesEmptyJob ==
    (last.op = "ingest" /\ last.outcome = "LoaderError")
    => /\ fs[LastPath].exists
       /\ ~fs[LastPath].chunks.exists
       /\ JobName(last.job_id) \in Range(ListedJobs(fs))
       /\ run_summarizer(fs, last.root, last.job_id, TRUE, GoodGen, now).outcome
            = "FileNotFoundError"

-----------------------------------------------------------------------------
\* C24: after any sequence of operations the job that find_latest_job and
\* get_latest_job_dir choose is a most recently created one: its name
\* carries the creation time of the first entry of the newest-first list,
\* also after an artifact was added to an older job.
C24_LatestIsNewestCreated ==
    ExistingJobs(jobs.tree) # {}
    => Take(JobName(find_latest_job(jobs.tree).path[2]), 4)
         = Take(ListedJobs(jobs.tree)[1], 4)

====
